---- MODULE Spec2Model ----
(***************************************************************************)
(* Dungeon pathfinder (solver.cpp): the plain BFS engine bfsPath and the   *)
(* key-aware BFS engine bfsPathKeys, one action per return site and per    *)
(* iteration of each engine's main loop.  Characters are their ASCII       *)
(* codes, a Cell is a record [r, c], a KeyState a record                   *)
(* [row, col, keyMask]; coordinates are 0-based as in the source.          *)
(***************************************************************************)
EXTENDS Integers, Sequences, FiniteSets, TLC

VARIABLES dungeon,        \* the grid handed to both engines (read-only)
          pc,             \* which engine runs, and where it is
          start, exit,    \* the running engine's located start and exit
          plainQueue, plainVisited, plainParents, plainCurrent,
          plainOutcome, plainPath,
          plainDequeues,  \* how many states bfsPath has dequeued
          keyQueue, keyVisited, keyParents, keyCurrent,
          keyOutcome, keyPath,
          keyDequeues,    \* how many states bfsPathKeys has dequeued
          collect         \* a call of collectKey: its arguments and results

vars == <<dungeon, pc, start, exit,
          plainQueue, plainVisited, plainParents, plainCurrent,
          plainOutcome, plainPath, plainDequeues,
          keyQueue, keyVisited, keyParents, keyCurrent,
          keyOutcome, keyPath, keyDequeues, collect>>

plainVars == <<plainQueue, plainVisited, plainParents, plainCurrent,
               plainOutcome, plainPath, plainDequeues>>
keyVars == <<keyQueue, keyVisited, keyParents, keyCurrent,
             keyOutcome, keyPath, keyDequeues>>

----------------------------------------------------------------------------
(* The symbol alphabet, as ASCII codes.                                    *)
ChWall == 35
ChOpen == 32
ChS == 83
ChE == 69
ChDoorA == 65
ChDoorF == 70
ChKeyA == 97
ChKeyF == 102

(* The goal coordinate the key-aware engine compares against.              *)
GoalRow == 5
GoalCol == 8

(* Bounds of the model: the number of cells of the enumerated window, and  *)
(* the same for the runs checked for termination under fairness.           *)
MaxCells == 6
MaxLiveCells == 4

----------------------------------------------------------------------------
(* Cells, grids.                                                           *)
Cell(row, col) == [r |-> row, c |-> col]

NUM_DIRECTIONS == 4

DIRECTIONS == << <<-1, 0>>, <<1, 0>>, <<0, -1>>, <<0, 1>> >>

NumRows(d) == Len(d)

NumCols(d) == Len(d[1])

CharAt(d, row, col) == d[row + 1][col + 1]

NoCell == Cell(-1, -1)

(* The first cell holding target in row-major order: the least row that   *)
(* holds it and the least column of that row; (-1, -1) when none does.     *)
Least(S) == CHOOSE x \in S : \A y \in S : x <= y

findPosition(d, target) ==
    LET rows == {row \in 0..(NumRows(d) - 1) :
                    \E col \in 0..(Len(d[row + 1]) - 1) : CharAt(d, row, col) = target}
    IN  IF rows = {} THEN NoCell
        ELSE LET row == Least(rows)
                 cols == {col \in 0..(Len(d[row + 1]) - 1) : CharAt(d, row, col) = target}
             IN  Cell(row, Least(cols))

isPassable(d, row, col) ==
    IF row < 0 \/ row >= NumRows(d) \/ col < 0 \/ col >= NumCols(d)
    THEN FALSE
    ELSE LET cell == CharAt(d, row, col)
         IN  IF cell = ChWall THEN FALSE
             ELSE IF cell >= ChDoorA /\ cell <= ChDoorF /\ cell # ChE THEN FALSE
             ELSE TRUE

Bit(mask, i) == (mask \div (2 ^ i)) % 2

(* Mutant of canPassDoor: any collected key opens any door.                *)
canPassDoorAnyKey(door, keyMask) ==
    IF door < ChDoorA \/ door > ChDoorF THEN TRUE
    ELSE keyMask # 0

canPassDoor(door, keyMask) ==
    IF door < ChDoorA \/ door > ChDoorF THEN TRUE
    ELSE LET requiredKey == door - ChDoorA + ChKeyA
             keyBit == requiredKey - ChKeyA
         IN  Bit(keyMask, keyBit) = 1

(* Mutant of collectKey: the key's bit is flipped, not set.                 *)
collectKeyToggle(key, keyMask) ==
    IF key < ChKeyA \/ key > ChKeyF THEN keyMask
    ELSE LET keyBit == key - ChKeyA
         IN  IF Bit(keyMask, keyBit) = 1 THEN keyMask - 2 ^ keyBit
             ELSE keyMask + 2 ^ keyBit

(* Mutant of collectKey: the bit is added without the test for its being   *)
(* set already.                                                            *)
collectKeyAdd(key, keyMask) ==
    IF key < ChKeyA \/ key > ChKeyF THEN keyMask
    ELSE keyMask + 2 ^ (key - ChKeyA)

collectKey(key, keyMask) ==
    IF key < ChKeyA \/ key > ChKeyF THEN keyMask
    ELSE LET keyBit == key - ChKeyA
         IN  IF Bit(keyMask, keyBit) = 1 THEN keyMask
             ELSE keyMask + 2 ^ keyBit

isValidPosition(d, row, col) ==
    IF row < 0 \/ row >= NumRows(d) \/ col < 0 \/ col >= NumCols(d)
    THEN FALSE
    ELSE CharAt(d, row, col) # ChWall

(* The loop of getNeighbors over directions i .. n - 1.                    *)
RECURSIVE neighborsFrom(_, _, _, _)
neighborsFrom(d, current, i, n) ==
    IF i >= n THEN << >>
    ELSE LET newRow == current.r + DIRECTIONS[i + 1][1]
             newCol == current.c + DIRECTIONS[i + 1][2]
             rest == neighborsFrom(d, current, i + 1, n)
         IN  IF isPassable(d, newRow, newCol)
             THEN <<Cell(newRow, newCol)>> \o rest
             ELSE rest

(* Mutant of getNeighbors: the loop stops one direction short.             *)
getNeighborsOneShort(d, current) ==
    neighborsFrom(d, current, 0, NUM_DIRECTIONS - 1)

getNeighbors(d, current) == neighborsFrom(d, current, 0, NUM_DIRECTIONS)

(* The frontier: std::queue front, pop and push.                           *)
queueFront(q) == Head(q)

(* Mutant of queuePop: the front is read but never removed.                *)
queuePopNothing(q) == q

queuePop(q) == Tail(q)

(* Mutant of queuePush: the state is put at the front of the frontier.     *)
queuePushFront(q, x) == <<x>> \o q

queuePush(q, x) == Append(q, x)

Reverse(s) == [i \in 1..Len(s) |-> s[Len(s) + 1 - i]]

(* Mutant of MapPut: the entry is never written.                           *)
MapPutDropped(m, k, v) == m

(* parents[child] = parent on a map kept as a function.                    *)
MapPut(m, k, v) == [x \in (DOMAIN m) \cup {k} |-> IF x = k THEN v ELSE m[x]]

EmptyMap == [x \in {} |-> x]

(* The while loop of reconstructPath and the push of the start after it:   *)
(* the cells from the goal back to the start, empty when a parent is       *)
(* missing.                                                                *)
RECURSIVE walkBack(_, _, _, _)
walkBack(parents, from, current, path) ==
    IF current.r = from.r /\ current.c = from.c
    THEN Append(path, from)
    ELSE IF current \notin DOMAIN parents THEN << >>
    ELSE walkBack(parents, from, parents[current], Append(path, current))

(* Mutant of reconstructPath: the path is returned without the reverse.    *)
reconstructPathNoReverse(parents, from, goal) ==
    walkBack(parents, from, goal, << >>)

reconstructPath(parents, from, goal) ==
    Reverse(walkBack(parents, from, goal, << >>))

----------------------------------------------------------------------------
(* bfsPath: the plain engine.                                              *)

(* Mutant of Invalid: only the start is checked.                           *)
InvalidStartOnly(startCell, exitCell) == startCell.r = -1

(* The sentinel check both engines make before any search starts.          *)
Invalid(startCell, exitCell) == startCell.r = -1 \/ exitCell.r = -1

(* Mutant of plainVisit: a neighbour counts as seen when it has a parent.   *)
RECURSIVE plainVisitByParents(_, _, _, _, _, _)
plainVisitByParents(d, current, nbrs, q, v, p) ==
    IF nbrs = << >> THEN [queue |-> q, visited |-> v, parents |-> p]
    ELSE LET neighbor == Head(nbrs)
         IN  IF isPassable(d, neighbor.r, neighbor.c) /\ neighbor \notin DOMAIN p
             THEN plainVisitByParents(d, current, Tail(nbrs), queuePush(q, neighbor),
                                      v \cup {neighbor}, MapPut(p, neighbor, current))
             ELSE plainVisitByParents(d, current, Tail(nbrs), q, v, p)

(* The body of the for loop over getNeighbors: each passable, unvisited    *)
(* neighbour is pushed, marked visited and given current as its parent.    *)
RECURSIVE plainVisit(_, _, _, _, _, _)
plainVisit(d, current, nbrs, q, v, p) ==
    IF nbrs = << >> THEN [queue |-> q, visited |-> v, parents |-> p]
    ELSE LET neighbor == Head(nbrs)
         IN  IF isPassable(d, neighbor.r, neighbor.c) /\ neighbor \notin v
             THEN plainVisit(d, current, Tail(nbrs), queuePush(q, neighbor),
                             v \cup {neighbor}, MapPut(p, neighbor, current))
             ELSE plainVisit(d, current, Tail(nbrs), q, v, p)

PlainInvalid ==
    /\ pc = "plain_start"
    /\ start' = findPosition(dungeon, ChS)
    /\ exit' = findPosition(dungeon, ChE)
    /\ Invalid(start', exit')
    /\ plainOutcome' = "invalid"
    /\ plainPath' = << >>
    /\ pc' = "keys_start"
    /\ UNCHANGED <<dungeon, collect, plainQueue, plainVisited, plainParents,
                   plainCurrent, plainDequeues, keyVars>>

PlainInit ==
    /\ pc = "plain_start"
    /\ start' = findPosition(dungeon, ChS)
    /\ exit' = findPosition(dungeon, ChE)
    /\ ~Invalid(start', exit')
    /\ plainQueue' = <<start'>>
    /\ plainVisited' = {start'}
    /\ pc' = "plain_loop"
    /\ UNCHANGED <<dungeon, collect, plainParents, plainCurrent, plainOutcome,
                   plainPath, plainDequeues, keyVars>>

PlainFound ==
    /\ pc = "plain_loop"
    /\ plainQueue # << >>
    /\ LET current == queueFront(plainQueue)
       IN  /\ current = exit
           /\ plainCurrent' = current
           /\ plainQueue' = queuePop(plainQueue)
           /\ plainDequeues' = plainDequeues + 1
           /\ plainPath' = reconstructPath(plainParents, start, current)
    /\ plainOutcome' = "found"
    /\ pc' = "keys_start"
    /\ UNCHANGED <<dungeon, collect, start, exit, plainVisited, plainParents, keyVars>>

PlainExpand ==
    /\ pc = "plain_loop"
    /\ plainQueue # << >>
    /\ LET current == queueFront(plainQueue)
           after == plainVisit(dungeon, current, getNeighbors(dungeon, current),
                               queuePop(plainQueue), plainVisited, plainParents)
       IN  /\ current # exit
           /\ plainCurrent' = current
           /\ plainDequeues' = plainDequeues + 1
           /\ plainQueue' = after.queue
           /\ plainVisited' = after.visited
           /\ plainParents' = after.parents
    /\ UNCHANGED <<dungeon, collect, start, exit, pc, plainOutcome, plainPath, keyVars>>

PlainExhausted ==
    /\ pc = "plain_loop"
    /\ plainQueue = << >>
    /\ plainOutcome' = "exhausted"
    /\ plainPath' = << >>
    /\ pc' = "keys_start"
    /\ UNCHANGED <<dungeon, collect, start, exit, plainQueue, plainVisited,
                   plainParents, plainCurrent, plainDequeues, keyVars>>

----------------------------------------------------------------------------
(* bfsPathKeys: the key-aware engine.                                      *)
KeyState(r, c, keys) == [row |-> r, col |-> c, keyMask |-> keys]

NoState == KeyState(-1, -1, 0)

RECURSIVE walkBackKeys(_, _, _, _)
walkBackKeys(parents, from, current, path) ==
    IF current.row = from.row /\ current.col = from.col
       /\ current.keyMask = from.keyMask
    THEN Append(path, Cell(from.row, from.col))
    ELSE IF current \notin DOMAIN parents THEN << >>
    ELSE walkBackKeys(parents, from, parents[current],
                      Append(path, Cell(current.row, current.col)))

reconstructKeyPath(parents, from, goal) ==
    Reverse(walkBackKeys(parents, from, goal, << >>))

(* The goal test of the main loop; exitCell is the located exit, which the *)
(* comparison leaves out in favour of the literal coordinate.              *)
keyGoalTest(current, exitCell) == current.row = GoalRow /\ current.col = GoalCol

(* Mutant of isDoorCell: every letter A..F is a door.                      *)
isDoorCellAnyLetter(cellChar) == cellChar >= ChDoorA /\ cellChar <= ChDoorF

(* The guard of the door check in the loop: a door letter that is neither  *)
(* the start nor the exit symbol.                                          *)
isDoorCell(cellChar) ==
    /\ cellChar >= ChDoorA /\ cellChar <= ChDoorF
    /\ cellChar # ChS /\ cellChar # ChE

(* The for loop over the four directions, from direction i on.             *)
RECURSIVE keyVisit(_, _, _, _, _, _)
keyVisit(d, current, i, q, v, p) ==
    IF i >= NUM_DIRECTIONS THEN [queue |-> q, visited |-> v, parents |-> p]
    ELSE LET newRow == current.row + DIRECTIONS[i + 1][1]
             newCol == current.col + DIRECTIONS[i + 1][2]
         IN  IF ~isValidPosition(d, newRow, newCol)
             THEN keyVisit(d, current, i + 1, q, v, p)
             ELSE LET cellChar == CharAt(d, newRow, newCol)
                      isDoor == isDoorCell(cellChar)
                      newKeyMask == IF cellChar >= ChKeyA /\ cellChar <= ChKeyF
                                    THEN collectKey(cellChar, current.keyMask)
                                    ELSE current.keyMask
                      newState == KeyState(newRow, newCol, newKeyMask)
                  IN  IF isDoor /\ ~canPassDoor(cellChar, current.keyMask)
                      THEN keyVisit(d, current, i + 1, q, v, p)
                      ELSE IF newState \notin v
                      THEN keyVisit(d, current, i + 1, queuePush(q, newState),
                                    v \cup {newState},
                                    MapPut(p, newState, current))
                      ELSE keyVisit(d, current, i + 1, q, v, p)

(* Mutant of StartState: the search starts holding key a.                  *)
StartStateWithKey(s) == KeyState(s.r, s.c, 1)

(* The state the search starts from: the start cell with no keys.          *)
StartState(s) == KeyState(s.r, s.c, 0)

KeysInvalid ==
    /\ pc = "keys_start"
    /\ start' = findPosition(dungeon, ChS)
    /\ exit' = findPosition(dungeon, ChE)
    /\ Invalid(start', exit')
    /\ keyOutcome' = "invalid"
    /\ keyPath' = << >>
    /\ pc' = "done"
    /\ UNCHANGED <<dungeon, collect, keyQueue, keyVisited, keyParents, keyCurrent,
                   keyDequeues, plainVars>>

KeysInit ==
    /\ pc = "keys_start"
    /\ start' = findPosition(dungeon, ChS)
    /\ exit' = findPosition(dungeon, ChE)
    /\ ~Invalid(start', exit')
    /\ keyQueue' = <<StartState(start')>>
    /\ keyVisited' = {StartState(start')}
    /\ pc' = "keys_loop"
    /\ UNCHANGED <<dungeon, collect, keyParents, keyCurrent, keyOutcome, keyPath,
                   keyDequeues, plainVars>>

KeysFound ==
    /\ pc = "keys_loop"
    /\ keyQueue # << >>
    /\ LET current == queueFront(keyQueue)
       IN  /\ keyGoalTest(current, exit)
           /\ keyCurrent' = current
           /\ keyQueue' = queuePop(keyQueue)
           /\ keyDequeues' = keyDequeues + 1
           /\ keyPath' = reconstructKeyPath(keyParents, StartState(start), current)
    /\ keyOutcome' = "found"
    /\ pc' = "done"
    /\ UNCHANGED <<dungeon, collect, start, exit, keyVisited, keyParents, plainVars>>

KeysExpand ==
    /\ pc = "keys_loop"
    /\ keyQueue # << >>
    /\ LET current == queueFront(keyQueue)
           after == keyVisit(dungeon, current, 0, queuePop(keyQueue), keyVisited,
                             keyParents)
       IN  /\ ~keyGoalTest(current, exit)
           /\ keyCurrent' = current
           /\ keyDequeues' = keyDequeues + 1
           /\ keyQueue' = after.queue
           /\ keyVisited' = after.visited
           /\ keyParents' = after.parents
    /\ UNCHANGED <<dungeon, collect, start, exit, pc, keyOutcome, keyPath, plainVars>>

KeysExhausted ==
    /\ pc = "keys_loop"
    /\ keyQueue = << >>
    /\ keyOutcome' = "exhausted"
    /\ keyPath' = << >>
    /\ pc' = "done"
    /\ UNCHANGED <<dungeon, collect, start, exit, keyQueue, keyVisited,
                   keyParents, keyCurrent, keyDequeues, plainVars>>

----------------------------------------------------------------------------
(* The grids the engines are run on.  Windows: every window of at most     *)
(* MaxCells cells, at least as wide as tall, over the alphabet, with at    *)
(* most one start, one exit, one key a and one door (A, which the key     *)
(* opens, or B, which it does not), set in the bottom right corner of an   *)
(* otherwise walled grid whose last cell is (GoalRow, GoalCol).            *)
(* Examples: the small grids "SaAE", "S#E", ["S.#", ".#E"] and "SE", and   *)
(* a two-key corridor "SabABE" ending at (GoalRow, GoalCol).               *)
ChDoorB == 66
ChKeyB == 98

Alphabet == {ChWall, ChOpen, ChS, ChE, ChKeyA, ChDoorA, ChDoorB}

Singular == {{ChS}, {ChE}, {ChKeyA}, {ChDoorA, ChDoorB}}

Shapes ==
    {s \in (1..MaxCells) \X (1..MaxCells) :
        s[1] <= s[2] /\ s[1] * s[2] <= MaxCells
        /\ s[1] <= GoalRow + 1 /\ s[2] <= GoalCol + 1}

WindowCells(s) == (0..(s[1] - 1)) \X (0..(s[2] - 1))

Windows(s) ==
    {g \in [WindowCells(s) -> Alphabet] :
        \A chs \in Singular :
            Cardinality({p \in WindowCells(s) : g[p] \in chs}) <= 1}

MakeDungeon(s, g) ==
    LET offR == GoalRow + 1 - s[1]
        offC == GoalCol + 1 - s[2]
    IN  [row \in 1..(GoalRow + 1) |->
            [col \in 1..(GoalCol + 1) |->
                IF row - 1 >= offR /\ col - 1 >= offC
                THEN g[<<row - 1 - offR, col - 1 - offC>>]
                ELSE ChWall]]

Examples ==
    { << <<ChS, ChKeyA, ChDoorA, ChE>> >>,
      << <<ChS, ChWall, ChE>> >>,
      << <<ChS, ChOpen, ChWall>>, <<ChOpen, ChWall, ChE>> >>,
      << <<ChS, ChE>> >>,
      MakeDungeon(<<1, 6>>,
                  [p \in WindowCells(<<1, 6>>) |->
                      <<ChS, ChKeyA, ChKeyB, ChDoorA, ChDoorB, ChE>>[p[2] + 1]]) }

(* No call of collectKey is being observed.                                *)
NoCall == [step |-> "none"]

(* Both engines at their entry, nothing allocated yet.                     *)
AtEntry ==
    /\ pc = "plain_start"
    /\ start = NoCell
    /\ exit = NoCell
    /\ plainQueue = << >>
    /\ plainVisited = {}
    /\ plainParents = EmptyMap
    /\ plainCurrent = NoCell
    /\ plainOutcome = "running"
    /\ plainPath = << >>
    /\ plainDequeues = 0
    /\ keyQueue = << >>
    /\ keyVisited = {}
    /\ keyParents = EmptyMap
    /\ keyCurrent = NoState
    /\ keyOutcome = "running"
    /\ keyPath = << >>
    /\ keyDequeues = 0
    /\ collect = NoCall

Init ==
    /\ \/ dungeon \in Examples
       \/ \E s \in Shapes : \E g \in Windows(s) : dungeon = MakeDungeon(s, g)
    /\ AtEntry

LiveShapes == {s \in Shapes : s[1] * s[2] <= MaxLiveCells}

LiveInit ==
    /\ \/ dungeon \in Examples
       \/ \E s \in LiveShapes : \E g \in Windows(s) : dungeon = MakeDungeon(s, g)
    /\ AtEntry

Next ==
    \/ PlainInvalid
    \/ PlainInit
    \/ PlainFound
    \/ PlainExpand
    \/ PlainExhausted
    \/ KeysInvalid
    \/ KeysInit
    \/ KeysFound
    \/ KeysExpand
    \/ KeysExhausted

Spec == Init /\ [][Next]_vars

(* Each call runs to completion: single-threaded, no suspension.           *)
FairSpec == LiveInit /\ [][Next]_vars /\ WF_vars(Next)

----------------------------------------------------------------------------
(* Reference notions the properties are stated with; none of them is used  *)
(* by the engines above.                                                   *)
AllCells(d) ==
    IF NumRows(d) = 0 THEN {}
    ELSE {Cell(row, col) : row \in 0..(NumRows(d) - 1), col \in 0..(NumCols(d) - 1)}

Tile(p) == CharAt(dungeon, p.r, p.c)

CellsHolding(ch) == {p \in AllCells(dungeon) : Tile(p) = ch}

Abs(x) == IF x < 0 THEN -x ELSE x

Adjacent(p, q) == Abs(p.r - q.r) + Abs(p.c - q.c) = 1

IsDoorLetter(ch) == ch >= ChDoorA /\ ch <= ChDoorF /\ ch # ChE

IsKeyLetter(ch) == ch >= ChKeyA /\ ch <= ChKeyF

MatchingKey(door) == door + (ChKeyA - ChDoorA)

PlainOpenCells == {p \in AllCells(dungeon) : Tile(p) # ChWall /\ ~IsDoorLetter(Tile(p))}

NonWallCells == {p \in AllCells(dungeon) : Tile(p) # ChWall}

(* Length of a shortest 4-connected walk from the frontier to goal over    *)
(* the cells of open, by levels; -1 when there is none.                    *)
RECURSIVE WalkLevels(_, _, _, _, _)
WalkLevels(open, frontier, seen, goal, n) ==
    IF goal \in frontier THEN n
    ELSE IF frontier = {} THEN -1
    ELSE LET next == {q \in open \ seen : \E p \in frontier : Adjacent(p, q)}
         IN  WalkLevels(open, next, seen \cup next, goal, n + 1)

HasStartAndExit == CellsHolding(ChS) # {} /\ CellsHolding(ChE) # {}

TheStart == CHOOSE p \in CellsHolding(ChS) : TRUE

TheExit == CHOOSE p \in CellsHolding(ChE) : TRUE

PlainDistance ==
    WalkLevels(PlainOpenCells, {TheStart}, {TheStart}, TheExit, 0)

(* The same over walks that carry the set of key letters stepped on and    *)
(* enter a door only with its matching key in that set.                    *)
KeyMoves(st) ==
    {<<q, IF IsKeyLetter(Tile(q)) THEN st[2] \cup {Tile(q)} ELSE st[2]>> :
        q \in {x \in NonWallCells :
                  /\ Adjacent(st[1], x)
                  /\ IsDoorLetter(Tile(x)) => MatchingKey(Tile(x)) \in st[2]}}

RECURSIVE KeyWalkLevels(_, _, _, _)
KeyWalkLevels(frontier, seen, goal, n) ==
    IF \E st \in frontier : st[1] = goal THEN n
    ELSE IF frontier = {} THEN -1
    ELSE LET next == (UNION {KeyMoves(st) : st \in frontier}) \ seen
         IN  KeyWalkLevels(next, seen \cup next, goal, n + 1)

KeyDistance ==
    KeyWalkLevels({<<TheStart, {}>>}, {<<TheStart, {}>>}, TheExit, 0)

PlainReturned == pc \in {"keys_start", "keys_loop", "done"}

StepsAdjacent(path) ==
    \A i \in 1..(Len(path) - 1) : Adjacent(path[i], path[i + 1])

----------------------------------------------------------------------------
(* C1: in the key-aware engine the search stops with success exactly when  *)
(* the dequeued state's (row, col) is the coordinate that locating 'E' in  *)
(* the grid returns, whatever the state's KeySet is.                       *)
C1_GoalIsLocatedExit ==
    keyCurrent # NoState =>
        ((keyOutcome = "found")
            <=> (Cell(keyCurrent.row, keyCurrent.col) = findPosition(dungeon, ChE)))

(* C2: a non-empty path returned by the plain engine starts on the cell    *)
(* holding 'S', ends on the cell holding 'E', moves one step up, down,     *)
(* left or right at a time and never stands on a wall or a door letter.    *)
C2_PlainPathWellFormed ==
    plainPath # << >> =>
        /\ plainPath[1] \in CellsHolding(ChS)
        /\ plainPath[Len(plainPath)] \in CellsHolding(ChE)
        /\ StepsAdjacent(plainPath)
        /\ \A i \in 1..Len(plainPath) : plainPath[i] \in PlainOpenCells

C2_Witness ==
    /\ plainOutcome = "found"
    /\ Len(plainPath) >= 4
    /\ \E i \in 1..Len(plainPath) : Tile(plainPath[i]) = ChKeyA

(* C3: a non-empty path returned by the key-aware engine starts on the     *)
(* cell holding 'S', ends on the cell holding 'E', moves one 4-adjacent    *)
(* step at a time and never stands on a wall.                              *)
C3_KeyPathWellFormed ==
    keyPath # << >> =>
        /\ keyPath[1] \in CellsHolding(ChS)
        /\ keyPath[Len(keyPath)] \in CellsHolding(ChE)
        /\ StepsAdjacent(keyPath)
        /\ \A i \in 1..Len(keyPath) : keyPath[i] \in NonWallCells

(* C4: on a grid with one 'S' and one 'E' the plain engine returns a       *)
(* non-empty path whenever a walk from 'S' to 'E' over cells that are      *)
(* neither wall nor door exists, and the path it returns has the minimum   *)
(* edge count among those walks.                                           *)
C4_PlainShortest ==
    (pc = "keys_start" /\ HasStartAndExit) =>
        /\ PlainDistance >= 0 => plainPath # << >>
        /\ plainPath # << >> => Len(plainPath) - 1 = PlainDistance

C4_Witness ==
    /\ pc = "keys_start"
    /\ Len(plainPath) >= 4
    /\ Cardinality(PlainOpenCells) > Len(plainPath)

(* C5: on a grid with one 'S' and one 'E' the key-aware engine returns a   *)
(* non-empty path whenever a walk from 'S' to 'E' exists that avoids walls *)
(* and enters each door only after stepping on its key, and the path has   *)
(* the minimum number of steps among those walks.                          *)
C5_KeyShortest ==
    (pc = "done" /\ HasStartAndExit) =>
        /\ KeyDistance >= 0 => keyPath # << >>
        /\ keyPath # << >> => Len(keyPath) - 1 = KeyDistance

(* C6: on a grid without door letters whose exit is reachable from the     *)
(* start through non-wall cells, both engines return paths with the same   *)
(* number of coordinates.                                                  *)
C6_SameLengthWithoutDoors ==
    (/\ pc = "done"
     /\ HasStartAndExit
     /\ \A p \in AllCells(dungeon) : ~IsDoorLetter(Tile(p))
     /\ PlainDistance >= 0)
        => Len(plainPath) = Len(keyPath)

(* C7: in a non-empty path returned by the key-aware engine every position *)
(* on a door letter comes after a position on the matching key letter.     *)
C7_DoorAfterKey ==
    keyPath # << >> =>
        \A i \in 1..Len(keyPath) :
            IsDoorLetter(Tile(keyPath[i])) =>
                \E j \in 1..(i - 1) : Tile(keyPath[j]) = MatchingKey(Tile(keyPath[i]))

C7_Witness ==
    /\ keyOutcome = "found"
    /\ \E i \in 1..Len(keyPath) : IsDoorLetter(Tile(keyPath[i]))

(* C8: on a grid without 'S' or without 'E' both engines return the empty  *)
(* sequence at the sentinel check, with nothing enqueued, visited,         *)
(* dequeued or recorded at any point.                                      *)
C8_InvalidGridEmpty ==
    ~HasStartAndExit =>
        /\ plainQueue = << >> /\ plainVisited = {} /\ plainParents = EmptyMap
        /\ plainCurrent = NoCell /\ plainPath = << >>
        /\ keyQueue = << >> /\ keyVisited = {} /\ keyParents = EmptyMap
        /\ keyCurrent = NoState /\ keyPath = << >>
        /\ PlainReturned => plainOutcome = "invalid"
        /\ pc = "done" => keyOutcome = "invalid"

C8_Witness ==
    /\ pc = "done"
    /\ CellsHolding(ChS) # {}
    /\ CellsHolding(ChE) = {}
    /\ keyOutcome = "invalid"

(* C9: when the exit can only be reached through a door whose key can be   *)
(* picked up first, the plain engine returns the empty sequence and the    *)
(* key-aware engine a non-empty route with the key before the door; on     *)
(* the one-row grid "SaAE" the key-aware engine returns                    *)
(* [(0,0),(0,1),(0,2),(0,3)].                                              *)
C9_RouteThroughDoor ==
    (pc = "done" /\ HasStartAndExit /\ PlainDistance = -1 /\ KeyDistance >= 0) =>
        /\ plainPath = << >>
        /\ keyPath # << >>
        /\ \E i \in 1..Len(keyPath) :
               /\ IsDoorLetter(Tile(keyPath[i]))
               /\ \E j \in 1..(i - 1) : Tile(keyPath[j]) = MatchingKey(Tile(keyPath[i]))
        /\ dungeon = << <<ChS, ChKeyA, ChDoorA, ChE>> >> =>
               keyPath = <<Cell(0, 0), Cell(0, 1), Cell(0, 2), Cell(0, 3)>>

(* C10: when the exit cannot be reached under an engine's rules, that      *)
(* engine returns the empty sequence, by exhausting its frontier.          *)
C10_UnreachableIsEmpty ==
    (pc = "done" /\ HasStartAndExit) =>
        /\ PlainDistance = -1 => (plainPath = << >> /\ plainOutcome = "exhausted")
        /\ KeyDistance = -1 => (keyPath = << >> /\ keyOutcome = "exhausted")

(* C11: on every finite grid each engine's loop terminates, by success or  *)
(* by an empty frontier; the plain engine dequeues at most rows*cols       *)
(* states and the key-aware engine at most rows*cols*64.                   *)
GridCells == NumRows(dungeon) * NumCols(dungeon)

KeySetCount == 2 ^ (ChKeyF - ChKeyA + 1)

C11_Terminates ==
    /\ <>(pc = "done")
    /\ [](/\ plainDequeues <= GridCells
          /\ keyDequeues <= GridCells * KeySetCount)

C11_Witness ==
    /\ pc = "done"
    /\ plainDequeues >= 3
    /\ keyOutcome = "exhausted" /\ keyDequeues >= 5

----------------------------------------------------------------------------
(* C12: in the key-aware engine, for every recorded predecessor edge       *)
(* parent -> child the child's KeySet is the parent's KeySet with the bit  *)
(* of the child's tile set when that tile is a key letter, and unchanged   *)
(* otherwise; so no bit of the parent is ever cleared in the child.        *)
KeyBits == 0..(ChKeyF - ChKeyA)

StateCell(st) == Cell(st.row, st.col)

C12_EdgeCollects ==
    \A child \in DOMAIN keyParents :
        LET parent == keyParents[child]
            tile == Tile(StateCell(child))
        IN  /\ child.keyMask \in 0..(KeySetCount - 1)
            /\ \A i \in KeyBits :
                   Bit(child.keyMask, i) =
                       IF tile = ChKeyA + i THEN 1 ELSE Bit(parent.keyMask, i)

(* An edge onto key b from a state that already holds key a, and an edge   *)
(* onto a plain tile that carries both keys on.                            *)
C12_Witness ==
    /\ \E child \in DOMAIN keyParents :
          /\ Tile(StateCell(child)) = ChKeyB
          /\ keyParents[child].keyMask = 1 /\ child.keyMask = 3
    /\ \E child \in DOMAIN keyParents :
          /\ ~IsKeyLetter(Tile(StateCell(child)))
          /\ keyParents[child].keyMask = 3 /\ child.keyMask = 3

----------------------------------------------------------------------------
(* C13: in both engines every visited state other than the start state has *)
(* an entry in the predecessor map, and following predecessors from any    *)
(* visited state reaches the start state within as many steps as there are *)
(* visited states; so a reconstruction the engine starts never meets a     *)
(* state absent from the map and never returns the empty path.             *)
RECURSIVE ChainReaches(_, _, _, _)
ChainReaches(parents, from, current, fuel) ==
    IF current = from THEN TRUE
    ELSE IF fuel = 0 \/ current \notin DOMAIN parents THEN FALSE
    ELSE ChainReaches(parents, from, parents[current], fuel - 1)

C13_ChainsReachStart ==
    /\ \A v \in plainVisited :
          /\ v # start => v \in DOMAIN plainParents
          /\ ChainReaches(plainParents, start, v, Cardinality(plainVisited))
    /\ \A v \in keyVisited :
          /\ v # StartState(start) => v \in DOMAIN keyParents
          /\ ChainReaches(keyParents, StartState(start), v, Cardinality(keyVisited))
    /\ plainOutcome = "found" => plainPath # << >>
    /\ keyOutcome = "found" => keyPath # << >>

(* Both engines reconstructed a route of several moves, and the key-aware  *)
(* engine had visited states off that route.                               *)
C13_Witness ==
    /\ pc = "done"
    /\ plainOutcome = "found" /\ Len(plainPath) >= 4
    /\ keyOutcome = "found" /\ Len(keyPath) >= 4
    /\ Cardinality(keyVisited) > Len(keyPath)

----------------------------------------------------------------------------
(* C14: in both engines a state is enqueued at most once: every state a    *)
(* step adds to the frontier was not visited before the step, is visited   *)
(* after it, and is added once; the visited set only grows, and an entry   *)
(* of the predecessor map is never removed or overwritten.                 *)
Range(q) == {q[i] : i \in DOMAIN q}

(* The states a step appended to frontier q, given what it popped.         *)
Added(q, qNext, popped) == SubSeq(qNext, Len(q) - popped + 1, Len(qNext))

EnqueuedOnce(q, qNext, popped, visited, visitedNext, parents, parentsNext) ==
    LET added == Added(q, qNext, popped)
    IN  /\ \A i \in DOMAIN added :
              /\ added[i] \notin visited
              /\ added[i] \in visitedNext
              /\ \A j \in DOMAIN added : added[j] = added[i] => j = i
        /\ visited \subseteq visitedNext
        /\ \A k \in DOMAIN parents :
              k \in DOMAIN parentsNext /\ parentsNext[k] = parents[k]

C14_EnqueuedOnce ==
    [][/\ EnqueuedOnce(plainQueue, plainQueue', plainDequeues' - plainDequeues,
                       plainVisited, plainVisited', plainParents, plainParents')
       /\ EnqueuedOnce(keyQueue, keyQueue', keyDequeues' - keyDequeues,
                       keyVisited, keyVisited', keyParents, keyParents')]_vars

(* Each engine expanded a state u next to a visited state v that is        *)
(* neither u's parent nor u's child: u found v visited and left it alone.  *)
C14_Witness ==
    /\ \E v \in DOMAIN plainParents : \E u \in DOMAIN plainParents :
          /\ Adjacent(u, v) /\ plainParents[v] # u /\ plainParents[u] # v
          /\ u \notin Range(plainQueue) /\ u # exit
    /\ \E v \in DOMAIN keyParents : \E u \in DOMAIN keyParents :
          /\ Adjacent(StateCell(u), StateCell(v)) /\ u.keyMask = v.keyMask
          /\ keyParents[v] # u /\ keyParents[u] # v
          /\ u \notin Range(keyQueue) /\ ~keyGoalTest(u, exit)

----------------------------------------------------------------------------
(* C15: the exit and the start symbol are never treated as doors.  When    *)
(* the plain engine has expanded a cell, every adjacent exit cell is       *)
(* visited; when the key-aware engine has expanded a state, every adjacent *)
(* exit or start cell is visited with that state's KeySet, whatever the    *)
(* KeySet is (none of them holds key e).                                   *)
CellsNextTo(p, chs) ==
    {n \in AllCells(dungeon) : Adjacent(n, p) /\ Tile(n) \in chs}

C15_ExitAndStartAreOpen ==
    /\ (pc = "plain_loop" /\ plainCurrent # NoCell) =>
          \A n \in CellsNextTo(plainCurrent, {ChE}) : n \in plainVisited
    /\ (pc = "keys_loop" /\ keyCurrent # NoState) =>
          \A n \in CellsNextTo(StateCell(keyCurrent), {ChE, ChS}) :
              KeyState(n.r, n.c, keyCurrent.keyMask) \in keyVisited

(* The key-aware engine has just stepped from key a, holding only that     *)
(* key, onto both the start and the exit, after it had stepped onto the    *)
(* exit with the empty KeySet and the plain engine had stepped onto it.    *)
C15_Witness ==
    /\ pc = "keys_loop" /\ keyCurrent # NoState
    /\ keyCurrent.keyMask = 1
    /\ \E n \in CellsNextTo(StateCell(keyCurrent), {ChS}) :
          KeyState(n.r, n.c, 1) \in DOMAIN keyParents
          /\ keyParents[KeyState(n.r, n.c, 1)] = keyCurrent
    /\ \E n \in CellsNextTo(StateCell(keyCurrent), {ChE}) :
          /\ KeyState(n.r, n.c, 1) \in DOMAIN keyParents
          /\ keyParents[KeyState(n.r, n.c, 1)] = keyCurrent
          /\ KeyState(n.r, n.c, 0) \in DOMAIN keyParents
          /\ n \in DOMAIN plainParents

----------------------------------------------------------------------------
(* collectKey on its own: a symbol and a KeySet are drawn, collectKey is   *)
(* applied to them, and then again to its own result with the same symbol. *)
MaxSymbol == 127

idleVars == <<dungeon, pc, start, exit, plainVars, keyVars>>

CollectInit ==
    /\ dungeon = << >>
    /\ pc = "collect"
    /\ start = NoCell /\ exit = NoCell
    /\ plainQueue = << >> /\ plainVisited = {} /\ plainParents = EmptyMap
    /\ plainCurrent = NoCell /\ plainOutcome = "running" /\ plainPath = << >>
    /\ plainDequeues = 0
    /\ keyQueue = << >> /\ keyVisited = {} /\ keyParents = EmptyMap
    /\ keyCurrent = NoState /\ keyOutcome = "running" /\ keyPath = << >>
    /\ keyDequeues = 0
    /\ \E symbol \in 0..MaxSymbol : \E keySet \in 0..(2 ^ (ChKeyF - ChKeyA + 1) - 1) :
          collect = [step |-> "input", symbol |-> symbol, keySet |-> keySet,
                     once |-> keySet, twice |-> keySet]

CollectOnce ==
    /\ collect.step = "input"
    /\ collect' = [collect EXCEPT !.step = "once",
                                  !.once = collectKey(collect.symbol, collect.keySet)]
    /\ UNCHANGED idleVars

CollectTwice ==
    /\ collect.step = "once"
    /\ collect' = [collect EXCEPT !.step = "twice",
                                  !.twice = collectKey(collect.symbol, collect.once)]
    /\ UNCHANGED idleVars

CollectNext == CollectOnce \/ CollectTwice

SpecCollect == CollectInit /\ [][CollectNext]_vars

(* C16: for every symbol and every 6-bit KeySet, collecting the same       *)
(* symbol a second time changes nothing; a symbol that is not a key letter *)
(* a..f leaves the KeySet unchanged, and a key letter sets exactly its own *)
(* bit and changes no other bit.                                           *)
C16_CollectIdempotent ==
    /\ collect.step \in {"once", "twice"} =>
          /\ collect.once \in 0..(KeySetCount - 1)
          /\ ~IsKeyLetter(collect.symbol) => collect.once = collect.keySet
          /\ \A i \in KeyBits :
                Bit(collect.once, i) =
                    IF collect.symbol = ChKeyA + i THEN 1
                    ELSE Bit(collect.keySet, i)
    /\ collect.step = "twice" => collect.twice = collect.once

(* Key c collected twice into a KeySet that held it already beside others. *)
C16_Witness ==
    /\ collect.step = "twice"
    /\ collect.symbol = ChKeyA + 2 /\ collect.keySet = 37
    /\ collect.twice = 37

----------------------------------------------------------------------------
(* C17: in both engines states leave the frontier first in, first out: a   *)
(* dequeue takes the oldest state and leaves the others in order, states   *)
(* are dequeued in non-decreasing distance from the start state, and the   *)
(* distances of the states in the frontier are in order and differ by at   *)
(* most one.  Distance is the length of a shortest walk of the engine's    *)
(* moves from the start state, computed by levels.                         *)
RECURSIVE PlainLevelSets(_, _, _, _)
PlainLevelSets(open, frontier, seen, acc) ==
    IF frontier = {} THEN acc
    ELSE LET next == {q \in open \ seen : \E p \in frontier : Adjacent(p, q)}
         IN  PlainLevelSets(open, next, seen \cup next, Append(acc, frontier))

RECURSIVE KeyLevelSets(_, _, _)
KeyLevelSets(frontier, seen, acc) ==
    IF frontier = {} THEN acc
    ELSE LET next == (UNION {KeyMoves(st) : st \in frontier}) \ seen
         IN  KeyLevelSets(next, seen \cup next, Append(acc, frontier))

MaskLetters(mask) == {ChKeyA + i : i \in {b \in KeyBits : Bit(mask, b) = 1}}

(* The level holding x, from 0; -1 when no level holds it.                 *)
LevelOf(levels, x) ==
    IF \E n \in DOMAIN levels : x \in levels[n]
    THEN (CHOOSE n \in DOMAIN levels : x \in levels[n]) - 1
    ELSE -1

PlainLevel(levels, p) == LevelOf(levels, p)

KeyLevel(levels, st) == LevelOf(levels, <<StateCell(st), MaskLetters(st.keyMask)>>)

(* dist: the distances of the frontier's states, in frontier order;        *)
(* last: the distance of the state dequeued last, -1 before any dequeue.   *)
FrontierInOrder(dist, last) ==
    /\ \A i \in DOMAIN dist : dist[i] >= 0
    /\ \A i \in DOMAIN dist : \A j \in DOMAIN dist : i < j => dist[i] <= dist[j]
    /\ dist # << >> => dist[Len(dist)] - dist[1] <= 1 /\ last <= dist[1]

PlainFrontierInOrder ==
    pc = "plain_loop" =>
        LET levels == PlainLevelSets(PlainOpenCells, {start}, {start}, << >>)
        IN  FrontierInOrder([i \in DOMAIN plainQueue |-> PlainLevel(levels, plainQueue[i])],
                            IF plainCurrent = NoCell THEN -1
                            ELSE PlainLevel(levels, plainCurrent))

KeyFrontierInOrder ==
    pc = "keys_loop" =>
        LET levels == KeyLevelSets({<<start, {}>>}, {<<start, {}>>}, << >>)
        IN  FrontierInOrder([i \in DOMAIN keyQueue |-> KeyLevel(levels, keyQueue[i])],
                            IF keyCurrent = NoState THEN -1
                            ELSE KeyLevel(levels, keyCurrent))

(* A step that dequeues takes the head and keeps the rest in order.        *)
FirstInFirstOut(q, qNext, popped, currentNext) ==
    popped # 0 =>
        /\ currentNext = Head(q)
        /\ Len(qNext) >= Len(q) - 1
        /\ SubSeq(qNext, 1, Len(q) - 1) = Tail(q)

C17_FifoByDistance ==
    /\ [](PlainFrontierInOrder /\ KeyFrontierInOrder)
    /\ [][/\ FirstInFirstOut(plainQueue, plainQueue', plainDequeues' - plainDequeues,
                             plainCurrent')
           /\ FirstInFirstOut(keyQueue, keyQueue', keyDequeues' - keyDequeues,
                             keyCurrent')]_vars

(* The key-aware engine's frontier holds at least three states at two      *)
(* distances, after the plain engine dequeued at least four states.        *)
C17_Witness ==
    /\ pc = "keys_loop" /\ Len(keyQueue) >= 3
    /\ plainDequeues >= 4
    /\ LET levels == KeyLevelSets({<<start, {}>>}, {<<start, {}>>}, << >>)
       IN  KeyLevel(levels, keyQueue[Len(keyQueue)]) = KeyLevel(levels, keyQueue[1]) + 1

----------------------------------------------------------------------------
(* C18: in the key-aware engine the KeySet of every visited state is       *)
(* exactly the set of key letters a..f on the tiles of the cells along its *)
(* predecessor chain, itself included, back to the state the chain starts  *)
(* from; it is a value in 0..63, and the state without a predecessor, the  *)
(* start state, has the empty KeySet.                                      *)
KeysOnTile(st) ==
    IF IsKeyLetter(Tile(StateCell(st))) THEN {Tile(StateCell(st))} ELSE {}

RECURSIVE ChainKeys(_, _, _)
ChainKeys(parents, current, fuel) ==
    IF current \notin DOMAIN parents \/ fuel = 0 THEN KeysOnTile(current)
    ELSE KeysOnTile(current) \cup ChainKeys(parents, parents[current], fuel - 1)

C18_KeySetIsKeysStepped ==
    \A v \in keyVisited :
        /\ v.keyMask \in 0..(KeySetCount - 1)
        /\ MaskLetters(v.keyMask) = ChainKeys(keyParents, v, Cardinality(keyVisited))
        /\ v \notin DOMAIN keyParents =>
              v.keyMask = 0 /\ Tile(StateCell(v)) = ChS

(* The exit was reached with both keys, key a and key b lying on the way,  *)
(* and the start cell was visited again holding key a.                     *)
C18_Witness ==
    /\ \E v \in keyVisited :
          /\ v.keyMask = 3 /\ Tile(StateCell(v)) = ChE
          /\ ChainKeys(keyParents, v, Cardinality(keyVisited)) = {ChKeyA, ChKeyB}
    /\ \E v \in DOMAIN keyParents : v.keyMask = 1 /\ Tile(StateCell(v)) = ChS
====
